---- MODULE Spec2Model ----
(***************************************************************************)
(* mkboot.py: builds a bootable eGON.BT0 image (F1C100S SPI flash / SD     *)
(* card) from a raw binary.  One invocation of the script is a sequential  *)
(* process; `pc` is its position, the locals of make_boot0 are variables,  *)
(* the file system and the open file handles are the environment.          *)
(*                                                                         *)
(* Numbers.  Lengths and offsets are plain integers.  Values that reach    *)
(* 2^32 (header words, the checksum accumulator) do not fit the model      *)
(* checker's integers and are kept as two halves, n = hi * 2^16 + lo with  *)
(* 0 <= lo < 2^16 and hi unbounded, which is how a Python int of any size  *)
(* is represented here.  Bytes are integers 0..255, byte strings are       *)
(* sequences of bytes (1-based, so Python's image[k] is image[k + 1]).     *)
(***************************************************************************)
EXTENDS Integers, Sequences, FiniteSets, TLC

(***************************** model bounds ********************************)
\* Inputs of length 0..MaxShort, and of every length within EdgeSpan of the
\* length that fills the first 512-byte block exactly.
MaxShort == 2
EdgeSpan == 1
\* Invocations of the script that one behaviour follows.
MaxRuns == 2
\* Number of command-line arguments tried: 0..MaxArgs.
MaxArgs == 3

(*************************** program constants *****************************)
HEADER_SIZE == 32
CODE_START_OFFSET == 48
\* the 511 of `(total_size + 511) & ~511`
ALIGN_MASK == 511
\* the 4 of `range(0, len(image), 4)` and of `image[i:i+4]`
WORD == 4
\* 0xEA000000
B_OPCODE == [hi |-> \hEA00, lo |-> 0]
\* 0x00FFFFFF
B_OFFSET_MASK == [hi |-> \h00FF, lo |-> \hFFFF]
\* 0x5F0A6C39
CHECKSUM_SEED == [hi |-> \h5F0A, lo |-> \h6C39]
\* 0xFFFFFFFF
U32_MASK == [hi |-> \hFFFF, lo |-> \hFFFF]
\* b'eGON.BT0'
MAGIC == <<101, 71, 79, 78, 46, 66, 84, 48>>
\* len(sys.argv) != 3: the script name and two positional arguments
ARGV_LEN == 3

(******************************* integers **********************************)
Half == 256 * 256

ToNum(n) == [hi |-> n \div Half, lo |-> n % Half]

NumAdd(a, b) ==
    [hi |-> a.hi + b.hi + ((a.lo + b.lo) \div Half), lo |-> (a.lo + b.lo) % Half]

RECURSIVE BitAnd(_, _)
BitAnd(x, y) ==
    IF x = 0 \/ y = 0 THEN 0
    ELSE (IF x % 2 = 1 /\ y % 2 = 1 THEN 1 ELSE 0) + 2 * BitAnd(x \div 2, y \div 2)

RECURSIVE BitOr(_, _)
BitOr(x, y) ==
    IF x = 0 THEN y
    ELSE IF y = 0 THEN x
    ELSE (IF x % 2 = 1 \/ y % 2 = 1 THEN 1 ELSE 0) + 2 * BitOr(x \div 2, y \div 2)

\* x & ~m for x, m >= 0: ~m has every bit set that m has clear, without end.
RECURSIVE AndNot(_, _)
AndNot(x, m) ==
    IF x = 0 THEN 0
    ELSE (IF m % 2 = 1 THEN 0 ELSE x % 2) + 2 * AndNot(x \div 2, m \div 2)

NumAnd(a, b) == [hi |-> BitAnd(a.hi, b.hi), lo |-> BitAnd(a.lo, b.lo)]

NumOr(a, b) == [hi |-> BitOr(a.hi, b.hi), lo |-> BitOr(a.lo, b.lo)]

\* struct.pack('<I', v): four bytes, least significant first; v must be
\* in 0..2^32-1 (struct.error otherwise).
pack_I(v) ==
    <<v.lo % 256, v.lo \div 256, v.hi % 256, v.hi \div 256>>

(***************************** byte strings ********************************)
\* b'\xNN' * n
Rep(byte, n) == [i \in 1..n |-> byte]

\* buf[a:a+len(bytes)] = bytes, on a bytearray (a is Python's 0-based offset)
SetSlice(buf, a, bytes) ==
    [i \in 1..Len(buf) |->
        IF i > a /\ i <= a + Len(bytes) THEN bytes[i - a] ELSE buf[i]]

(**************************** the environment ******************************)
\* File names the command line can give.
Names == {"boot.bin", "boot.img"}

NoFile == [exists |-> FALSE, data |-> <<>>]

File(bytes) == [exists |-> TRUE, data |-> bytes]

\* Contents of the raw binary: byte k (1-based) of an input made from `seed`.
\* Seed 17 begins 0x11, 0x22, ...; seed 255 begins 0xFF, 0xFE, ...
Seeds == {17, 255}

RawCode(len, seed) == [k \in 1..len |-> (seed * k) % 256]

\* Block size implied by ALIGN_MASK, and the input length that fills one block.
BLOCK == ALIGN_MASK + 1

FullBlockLen == BLOCK - CODE_START_OFFSET

Lengths ==
    (0..MaxShort) \cup ((FullBlockLen - EdgeSpan)..(FullBlockLen + EdgeSpan))

\* A four-byte input whose image sums to the checksum seed 0x5F0A6C39 itself.
SeedSumCode == <<71, 116, 92, 151>>

InputFiles == {RawCode(len, seed) : len \in Lengths, seed \in Seeds} \cup {SeedSumCode}

\* sys.argv[1:]: every pair of names, and one list of each other length up
\* to MaxArgs (the script reads no argument unless there are exactly two).
ArgLists ==
    [1..2 -> Names] \cup {[i \in 1..n |-> "boot.bin"] : n \in (0..MaxArgs) \ {2}}

\* How many bytes of an n-byte buffer reach the file before a write error
\* (n itself: the whole buffer was written).
WriteCuts(n) == {k \in {0, 20, n - 1, n} : 0 <= k /\ k <= n}

(******************************** state ************************************)
VARIABLES
    run,            \* number of this invocation of the script
    argv,           \* sys.argv[1:]
    pc,             \* position in the script
    exit,           \* <<>> while running, <<status>> once the process ended
    stdout,         \* what this invocation printed
    fs,             \* the file system: name -> file
    open,           \* file handles open in this process
    code,           \* locals of make_boot0
    padding_size,
    total_size,
    aligned_size,
    tail_padding,
    header,
    image,
    checksum,
    \* history, read by the properties only
    fsStart,        \* fs when this invocation started
    failure,        \* which I/O call failed in this invocation, or "none"
    steps,          \* the statements this invocation completed, in order
    handles,        \* every handle this invocation opened, in order
    produced        \* one record per successful invocation so far

locals == <<code, padding_size, total_size, aligned_size, tail_padding,
            header, image, checksum>>

history == <<fsStart, failure, steps, handles, produced>>

vars == <<run, argv, pc, exit, stdout, fs, open, locals, history>>

(***************************** control flow ********************************)
\* Faulty variant of WrongArgCount: only too few arguments are refused.
BadArgCount(n) == n < ARGV_LEN

\* len(sys.argv) != 3
WrongArgCount(n) == n # ARGV_LEN

\* Faulty variant of Order: the image is written before it is patched.
PatchAfterWrite ==
    <<"open_in", "read", "close_in", "layout", "header", "assemble", "checksum",
      "open_out", "write", "close_out", "patch", "print">>

\* The statements of make_boot0 in program order.
Order ==
    <<"open_in", "read", "close_in", "layout", "header", "assemble", "checksum",
      "patch", "open_out", "write", "close_out", "print">>

After(p) ==
    LET i == CHOOSE j \in 1..Len(Order) : Order[j] = p
    IN  IF i < Len(Order) THEN Order[i + 1] ELSE "exit"

\* Faulty variant of Resume: the exception is caught and ignored.
Swallow(ok, next) == [pc |-> next, exit |-> <<>>]

\* No statement of the script catches an exception: one raised by an I/O call
\* leaves make_boot0 and the module, and the interpreter exits with status 1.
Resume(ok, next) ==
    IF ok THEN [pc |-> next, exit |-> <<>>] ELSE [pc |-> "exit", exit |-> <<1>>]

\* Faulty variant of WithExit: open() and close() without a with block.
CloseOnSuccessOnly(h, raised) == IF raised THEN open ELSE open \ {h}

\* `with open(...) as f:` releases the handle when the block is left, whether
\* or not the block raised.
WithExit(h, raised) == open \ {h}

(**************************** pure computation *****************************)

\* padding_size = CODE_START_OFFSET - HEADER_SIZE
PaddingSize == CODE_START_OFFSET - HEADER_SIZE

\* total_size = CODE_START_OFFSET + len(code)
TotalSize(c) == CODE_START_OFFSET + Len(c)

\* Faulty variant of AlignedSize: (total_size + 512) & ~511.
AlignedSizeNextBlock(total) == AndNot(total + BLOCK, ALIGN_MASK)

\* aligned_size = (total_size + 511) & ~511
AlignedSize(total) == AndNot(total + ALIGN_MASK, ALIGN_MASK)

\* Faulty variant of TailPadding: 512 - total_size % 512.
TailPaddingByModulo(aligned, total) == BLOCK - (total % BLOCK)

\* tail_padding = aligned_size - total_size
TailPadding(aligned, total) == aligned - total

\* Faulty variant of NewHeader: a build counter in the reserved bytes [24:28].
StampedHeader == SetSlice(Rep(0, HEADER_SIZE), 24, pack_I(ToNum(run)))

\* header = bytearray(HEADER_SIZE): 32 zero bytes
NewHeader == Rep(0, HEADER_SIZE)

\* The five slice assignments that fill the header.
HeaderBytes(aligned) ==
    LET jump_offset == (CODE_START_OFFSET \div 4) - 2
        h1 == SetSlice(NewHeader, 0,
                       pack_I(NumOr(B_OPCODE, NumAnd(ToNum(jump_offset), B_OFFSET_MASK))))
        h2 == SetSlice(h1, 4, MAGIC)
        h3 == SetSlice(h2, 12, pack_I(CHECKSUM_SEED))
        h4 == SetSlice(h3, 16, pack_I(ToNum(aligned)))
        h5 == SetSlice(h4, 20, pack_I(ToNum(HEADER_SIZE)))
    IN  h5

\* Faulty variant of Assemble: the 0xFF padding after the code.
AssemblePaddingLast(h, pad, c, tail) == h \o c \o Rep(255, pad) \o Rep(0, tail)

\* image = bytes(header) + b'\xff' * padding_size + code + b'\x00' * tail_padding
Assemble(h, pad, c, tail) == h \o Rep(255, pad) \o c \o Rep(0, tail)

\* Faulty variant of unpack_I: struct.unpack('>I', b)[0].
unpack_BigEndian(b) == [hi |-> 256 * b[1] + b[2], lo |-> 256 * b[3] + b[4]]

\* struct.unpack('<I', b)[0]
unpack_I(b) == [hi |-> b[3] + 256 * b[4], lo |-> b[1] + 256 * b[2]]

\* Iterations a .. b-1 of the loop `for i in range(0, len(image), 4):
\* checksum += word`, entered with checksum = acc: the words are added to the
\* accumulator one after the other, left to right.  A range of more than one
\* iteration is run as its first half followed by its second half, and the
\* accumulator is evaluated (the test acc.lo < Half, which always holds)
\* before the range is entered: both only keep the evaluation shallow.
RECURSIVE Loop(_, _, _, _)
Loop(img, acc, a, b) ==
    IF b <= a \/ ~(acc.lo < Half) THEN acc
    ELSE IF b = a + 1
         THEN NumAdd(acc, unpack_I(SubSeq(img, WORD * a + 1, WORD * a + WORD)))
         ELSE LET mid == (a + b) \div 2
              IN  Loop(img, Loop(img, acc, a, mid), mid, b)

\* len(range(0, n, 4))
Iterations(n) == (n + WORD - 1) \div WORD

\* checksum = 0; the loop; checksum &= 0xFFFFFFFF
Checksum(img) == NumAnd(Loop(img, ToNum(0), 0, Iterations(Len(img))), U32_MASK)

(******************************** actions **********************************)
Init ==
    /\ run = 1
    /\ argv \in ArgLists
    /\ pc = "main"
    /\ exit = <<>>
    /\ stdout = <<>>
    /\ \E bytes \in InputFiles :
          fs = [n \in Names |-> IF n = "boot.bin" THEN File(bytes) ELSE NoFile]
    /\ open = {}
    /\ code = <<>>
    /\ padding_size = 0
    /\ total_size = 0
    /\ aligned_size = 0
    /\ tail_padding = 0
    /\ header = <<>>
    /\ image = <<>>
    /\ checksum = ToNum(0)
    /\ fsStart = fs
    /\ failure = "none"
    /\ steps = <<>>
    /\ handles = <<>>
    /\ produced = <<>>

\* if len(sys.argv) != 3: print the usage text, sys.exit(1)
Usage ==
    /\ pc = "main"
    /\ WrongArgCount(Len(argv) + 1)
    /\ stdout' = Append(stdout, <<"usage">>)
    /\ pc' = "exit"
    /\ exit' = <<1>>
    /\ UNCHANGED <<run, argv, fs, open, locals, history>>

\* make_boot0(sys.argv[1], sys.argv[2])
Call ==
    /\ pc = "main"
    /\ ~WrongArgCount(Len(argv) + 1)
    /\ pc' = Order[1]
    /\ UNCHANGED <<run, argv, exit, stdout, fs, open, locals, history>>

\* open(bin_file, 'rb'): fails when the file does not exist, and may fail
\* when it does (permissions, ...)
OpenIn ==
    /\ pc = "open_in"
    /\ \E ok \in (IF fs[argv[1]].exists THEN BOOLEAN ELSE {FALSE}) :
          /\ pc' = Resume(ok, After("open_in")).pc
          /\ exit' = Resume(ok, After("open_in")).exit
          /\ open' = IF ok THEN open \cup {"in"} ELSE open
          /\ handles' = IF ok THEN Append(handles, "in") ELSE handles
          /\ failure' = IF ok THEN failure ELSE "open_in"
    /\ UNCHANGED <<run, argv, stdout, fs, locals, fsStart, steps, produced>>

\* code = f.read(); a read error leaves the with block through its exit
ReadIn ==
    /\ pc = "read"
    /\ \E ok \in BOOLEAN :
          /\ pc' = Resume(ok, After("read")).pc
          /\ exit' = Resume(ok, After("read")).exit
          /\ code' = IF ok THEN fs[argv[1]].data ELSE code
          /\ open' = IF ok THEN open ELSE WithExit("in", TRUE)
          /\ steps' = IF ok THEN Append(steps, "read") ELSE steps
          /\ failure' = IF ok THEN failure ELSE "read"
    /\ UNCHANGED <<run, argv, stdout, fs, padding_size, total_size, aligned_size,
                   tail_padding, header, image, checksum, fsStart, handles, produced>>

\* end of the first with block
CloseIn ==
    /\ pc = "close_in"
    /\ open' = WithExit("in", FALSE)
    /\ pc' = After("close_in")
    /\ UNCHANGED <<run, argv, exit, stdout, fs, locals, history>>

\* lines 28-33
Layout ==
    /\ pc = "layout"
    /\ padding_size' = PaddingSize
    /\ total_size' = TotalSize(code)
    /\ aligned_size' = AlignedSize(TotalSize(code))
    /\ tail_padding' = TailPadding(AlignedSize(TotalSize(code)), TotalSize(code))
    /\ pc' = After("layout")
    /\ UNCHANGED <<run, argv, exit, stdout, fs, open, code, header, image, checksum,
                   history>>

\* lines 37-56
BuildHeader ==
    /\ pc = "header"
    /\ header' = HeaderBytes(aligned_size)
    /\ steps' = Append(steps, "header")
    /\ pc' = After("header")
    /\ UNCHANGED <<run, argv, exit, stdout, fs, open, code, padding_size, total_size,
                   aligned_size, tail_padding, image, checksum, fsStart, failure,
                   handles, produced>>

\* lines 61-64
AssembleImage ==
    /\ pc = "assemble"
    /\ image' = Assemble(header, padding_size, code, tail_padding)
    /\ steps' = Append(steps, "assemble")
    /\ pc' = After("assemble")
    /\ UNCHANGED <<run, argv, exit, stdout, fs, open, code, padding_size, total_size,
                   aligned_size, tail_padding, header, checksum, fsStart, failure,
                   handles, produced>>

\* lines 68-72.  struct.unpack raises struct.error on a last slice shorter
\* than four bytes, an exception like any other.
ComputeChecksum ==
    /\ pc = "checksum"
    /\ LET ok == Len(image) % WORD = 0
       IN  /\ pc' = Resume(ok, After("checksum")).pc
           /\ exit' = Resume(ok, After("checksum")).exit
           /\ checksum' = IF ok THEN Checksum(image) ELSE checksum
           /\ steps' = IF ok THEN Append(steps, "checksum") ELSE steps
           /\ failure' = IF ok THEN failure ELSE "unpack"
    /\ UNCHANGED <<run, argv, stdout, fs, open, code, padding_size, total_size,
                   aligned_size, tail_padding, header, image, fsStart, handles,
                   produced>>

\* image = bytearray(image); image[12:16] = struct.pack('<I', checksum)
Patch ==
    /\ pc = "patch"
    /\ image' = SetSlice(image, 12, pack_I(checksum))
    /\ steps' = Append(steps, "patch")
    /\ pc' = After("patch")
    /\ UNCHANGED <<run, argv, exit, stdout, fs, open, code, padding_size, total_size,
                   aligned_size, tail_padding, header, checksum, fsStart, failure,
                   handles, produced>>

\* open(output_file, 'wb'): creates the file or truncates it, or fails and
\* leaves the file system as it was
OpenOut ==
    /\ pc = "open_out"
    /\ \E ok \in BOOLEAN :
          /\ pc' = Resume(ok, After("open_out")).pc
          /\ exit' = Resume(ok, After("open_out")).exit
          /\ fs' = IF ok THEN [fs EXCEPT ![argv[2]] = File(<<>>)] ELSE fs
          /\ open' = IF ok THEN open \cup {"out"} ELSE open
          /\ handles' = IF ok THEN Append(handles, "out") ELSE handles
          /\ failure' = IF ok THEN failure ELSE "open_out"
    /\ UNCHANGED <<run, argv, stdout, locals, fsStart, steps, produced>>

\* f.write(image): all of the image reaches the file, or a write error
\* leaves a shorter prefix of it there and the with block through its exit
WriteOut ==
    /\ pc = "write"
    /\ \E k \in WriteCuts(Len(image)) :
          LET ok == k = Len(image)
          IN  /\ pc' = Resume(ok, After("write")).pc
              /\ exit' = Resume(ok, After("write")).exit
              /\ fs' = [fs EXCEPT ![argv[2]] = File(SubSeq(image, 1, k))]
              /\ open' = IF ok THEN open ELSE WithExit("out", TRUE)
              /\ steps' = IF ok THEN Append(steps, "write") ELSE steps
              /\ failure' = IF ok THEN failure ELSE "write"
    /\ UNCHANGED <<run, argv, stdout, locals, fsStart, handles, produced>>

\* end of the second with block: f.close() releases the handle, and raises
\* when the system reports a deferred write error at close
CloseOut ==
    /\ pc = "close_out"
    /\ \E ok \in BOOLEAN :
          /\ pc' = Resume(ok, After("close_out")).pc
          /\ exit' = Resume(ok, After("close_out")).exit
          /\ failure' = IF ok THEN failure ELSE "close_out"
    /\ open' = WithExit("out", FALSE)
    /\ UNCHANGED <<run, argv, stdout, fs, locals, fsStart, steps, handles, produced>>

\* lines 81-85, then the end of the script: exit status 0
PrintSummary ==
    /\ pc = "print"
    /\ stdout' = Append(stdout, <<"created", argv[2], Len(code), Len(image), checksum>>)
    /\ steps' = Append(steps, "print")
    /\ produced' = Append(produced,
                          [run |-> run, code |-> code, out |-> argv[2],
                           file |-> fs[argv[2]].data])
    /\ pc' = After("print")
    /\ exit' = IF After("print") = "exit" THEN <<0>> ELSE exit
    /\ UNCHANGED <<run, argv, fs, open, locals, fsStart, failure, handles>>

\* The script is run again, as a new process, on the file system the earlier
\* runs left.
Invoke ==
    /\ pc = "exit"
    /\ run < MaxRuns
    /\ run' = run + 1
    /\ argv' \in ArgLists
    /\ pc' = "main"
    /\ exit' = <<>>
    /\ stdout' = <<>>
    /\ open' = {}
    /\ code' = <<>>
    /\ padding_size' = 0
    /\ total_size' = 0
    /\ aligned_size' = 0
    /\ tail_padding' = 0
    /\ header' = <<>>
    /\ image' = <<>>
    /\ checksum' = ToNum(0)
    /\ fsStart' = fs
    /\ failure' = "none"
    /\ steps' = <<>>
    /\ handles' = <<>>
    /\ UNCHANGED <<fs, produced>>

Next ==
    \/ Usage
    \/ Call
    \/ OpenIn
    \/ ReadIn
    \/ CloseIn
    \/ Layout
    \/ BuildHeader
    \/ AssembleImage
    \/ ComputeChecksum
    \/ Patch
    \/ OpenOut
    \/ WriteOut
    \/ CloseOut
    \/ PrintSummary
    \/ Invoke

Spec == Init /\ [][Next]_vars

(***************************************************************************)
(* Properties.  They read the bytes of the image and of the output file    *)
(* with definitions of their own, not with the operators that model the    *)
(* script.                                                                 *)
(***************************************************************************)
Did(s) == \E i \in 1..Len(steps) : steps[i] = s

Opened(h) == \E i \in 1..Len(handles) : handles[i] = h

Printed(tag) == \E i \in 1..Len(stdout) : stdout[i][1] = tag

\* The output file of this invocation.
OutFile == fs[argv[2]].data

NumOf(n) == [hi |-> n \div 65536, lo |-> n % 65536]

\* The little-endian 32-bit value at Python offset `off` of `bytes`.
FieldAt(bytes, off) ==
    [hi |-> bytes[off + 3] + 256 * bytes[off + 4],
     lo |-> bytes[off + 1] + 256 * bytes[off + 2]]

\* 0x5F0A6C39, little-endian
SeedBytes == <<\h39, \h6C, \h0A, \h5F>>

WithSeed(bytes) ==
    [i \in 1..Len(bytes) |-> IF i \in 13..16 THEN SeedBytes[i - 12] ELSE bytes[i]]

\* 32-bit unsigned addition: wraps at every addition.
Add32(a, b) ==
    [hi |-> (a.hi + b.hi + ((a.lo + b.lo) \div 65536)) % 65536,
     lo |-> (a.lo + b.lo) % 65536]

RECURSIVE WrapLoop(_, _, _, _)
WrapLoop(bytes, acc, a, b) ==
    IF b <= a \/ ~(acc.lo < 65536) THEN acc
    ELSE IF b = a + 1 THEN Add32(acc, FieldAt(bytes, 4 * a))
         ELSE LET mid == (a + b) \div 2
              IN  WrapLoop(bytes, WrapLoop(bytes, acc, a, mid), mid, b)

\* Sum of the little-endian 32-bit words of `bytes`, modulo 2^32.
WrapSum(bytes) == WrapLoop(bytes, NumOf(0), 0, Len(bytes) \div 4)

\* A structurally complete image: as long as its header says, and its
\* checksum verifies.
Complete(bytes) ==
    /\ Len(bytes) >= 32
    /\ Len(bytes) % 4 = 0
    /\ FieldAt(bytes, 16) = NumOf(Len(bytes))
    /\ FieldAt(bytes, 12) = WrapSum(WithSeed(bytes))

Succeeded == pc = "exit" /\ exit = <<0>>

Failed == pc = "exit" /\ exit # <<>> /\ exit[1] # 0

FixedOrder == <<"read", "header", "assemble", "checksum", "patch", "write", "print">>

IsPrefix(s, t) == Len(s) <= Len(t) /\ SubSeq(t, 1, Len(s)) = s

\* C1: once the image is assembled from an input of L bytes its length is
\* ((0x30 + L + 511) & ~511) = ceil((0x30 + L) / 512) * 512: a multiple of 512,
\* at least 0x30 + L, with a tail padding of 0..511 bytes that is 0 exactly
\* when 0x30 + L is a multiple of 512; L = 0 and L = 1 give 512, L = 464 gives
\* 512 with no tail padding, L = 465 gives 1024 with 511 bytes of it.  The
\* file of a successful run has that length too.
C1_ImageLength ==
    Did("assemble") =>
        LET L == Len(code)
            n == Len(image)
            tail == n - (\h30 + L)
        IN  /\ n = AndNot(\h30 + L + 511, 511)
            /\ n = ((\h30 + L + 511) \div 512) * 512
            /\ n % 512 = 0
            /\ n >= \h30 + L
            /\ tail \in 0..511
            /\ tail = tail_padding
            /\ (tail = 0) <=> ((\h30 + L) % 512 = 0)
            /\ L \in {0, 1} => n = 512
            /\ L = 464 => n = 512 /\ tail = 0
            /\ L = 465 => n = 1024 /\ tail = 511
            /\ Succeeded => Len(OutFile) = n

C1_Witness ==
    /\ Succeeded
    /\ Len(code) = 465
    /\ Len(OutFile) = 1024

\* C2: the little-endian 32-bit value in bytes [16:20] of the image is the
\* true length of the image as concatenated, which is aligned_size; and once
\* the image is written, the value in bytes [16:20] of the file is the length
\* of the file.
C2_LengthField ==
    /\ Did("assemble") =>
          /\ Len(image) = aligned_size
          /\ FieldAt(image, 16) = NumOf(Len(image))
          /\ Len(image) = HEADER_SIZE + padding_size + Len(code) + tail_padding
    /\ Did("write") => FieldAt(OutFile, 16) = NumOf(Len(OutFile))

C2_Witness ==
    /\ Did("write")
    /\ Len(code) = 464
    /\ FieldAt(OutFile, 16) = NumOf(512)
    /\ Len(OutFile) = 512

\* C3: the checksum round-trips.  The value the script computes (unbounded
\* sum, masked once at the end) is the sum of the seed-bearing image with
\* wraparound at every addition and lies in 0..2^32-1; it is the value the
\* patch stores; and the image a run has written, with bytes [12:16]
\* replaced by the seed 0x5F0A6C39 and summed as little-endian words modulo
\* 2^32, gives the value stored in its bytes [12:16].
C3_ChecksumRoundTrip ==
    /\ (Did("checksum") /\ ~Did("patch")) =>
          /\ checksum = WrapSum(WithSeed(image))
          /\ checksum.hi \in 0..65535
          /\ checksum.lo \in 0..65535
    /\ Did("patch") => FieldAt(image, 12) = checksum
    /\ (Did("write") /\ pc = "exit") =>
          /\ FieldAt(OutFile, 12) = WrapSum(WithSeed(OutFile))
          /\ \A i \in 13..16 : OutFile[i] \in 0..255

C3_Witness ==
    /\ Succeeded
    /\ Len(code) = 465
    /\ FieldAt(OutFile, 12) = WrapSum(WithSeed(OutFile))
    /\ FieldAt(OutFile, 12) # FieldAt(WithSeed(OutFile), 12)

\* C4: the written image has the byte-exact layout: 0xEA00000A, "eGON.BT0",
\* (checksum), (length), 32, eight zero bytes, sixteen 0xFF bytes, the input
\* bytes verbatim from 0x30, and zero bytes from 0x30 + L to the end.
C4_Layout ==
    Did("write") =>
        LET f == OutFile
            L == Len(code)
        IN  /\ Len(f) >= \h30 + L
            /\ SubSeq(f, 1, 4) = <<\h0A, 0, 0, \hEA>>
            /\ SubSeq(f, 5, 12) = <<101, 71, 79, 78, 46, 66, 84, 48>>
            /\ SubSeq(f, 21, 24) = <<32, 0, 0, 0>>
            /\ \A i \in 25..32 : f[i] = 0
            /\ \A i \in 33..48 : f[i] = \hFF
            /\ \A i \in 1..L : f[\h30 + i] = code[i]
            /\ \A i \in (\h30 + L + 1)..Len(f) : f[i] = 0

C4_Witness ==
    /\ Did("write")
    /\ Len(code) = 2
    /\ code[1] = \h11
    /\ OutFile[\h30 + 1] = \h11
    /\ OutFile[\h30 + 2] = \h22
    /\ OutFile[\h30 + 3] = 0

\* C5: with any number of positional arguments other than two the script
\* prints the usage message and exits with a non-zero status, opens no file
\* and leaves the file system as it was; make_boot0 runs only with exactly
\* two arguments.
C5_UsageError ==
    /\ Len(argv) # 2 =>
          /\ pc \in {"main", "exit"}
          /\ handles = <<>>
          /\ open = {}
          /\ steps = <<>>
          /\ fs = fsStart
          /\ ~Printed("created")
          /\ pc = "exit" => Failed /\ stdout = <<<<"usage">>>>
    /\ (pc \notin {"main", "exit"} \/ handles # <<>> \/ steps # <<>> \/ failure # "none")
          => Len(argv) = 2

C5_Witness ==
    /\ Len(argv) = 3
    /\ Failed
    /\ stdout = <<<<"usage">>>>
    /\ fs = fsStart

\* C6: every I/O failure is fatal: the run ends at once with a non-zero
\* exit status and never prints the summary, and a run that exits with
\* status 0 had no failure; when opening or reading the input fails the
\* output file is never opened and the file system is left as it was.
C6_IOFailureFatal ==
    /\ failure # "none" => Failed /\ ~Printed("created") /\ ~Did("print")
    /\ Succeeded => failure = "none"
    /\ failure \in {"open_in", "read"} => ~Opened("out") /\ fs = fsStart
    /\ failure = "open_out" => fs = fsStart

C6_Witness ==
    /\ failure = "read"
    /\ Failed
    /\ fs = fsStart
    /\ fs[argv[2]].exists

\* C7: the builder is deterministic: any two successful runs that read the
\* same input bytes wrote byte-identical files, whatever the file names and
\* whatever the earlier run left behind.
C7_Deterministic ==
    \A i, j \in 1..Len(produced) :
        produced[i].code = produced[j].code => produced[i].file = produced[j].file

C7_Witness ==
    /\ Len(produced) = 2
    /\ produced[1].run # produced[2].run
    /\ produced[1].code = produced[2].code
    /\ produced[1].out # produced[2].out
    /\ produced[1].file = produced[2].file

\* What C8 says of each state: the steps done so far are a prefix of the
\* fixed order, the checksum field holds the seed from header construction
\* until the patch, and the output file is opened and written only after the
\* patch, with the patched image.
C8_State ==
    /\ IsPrefix(steps, FixedOrder)
    /\ Succeeded => steps = FixedOrder
    /\ (Did("header") /\ ~Did("patch")) => SubSeq(header, 13, 16) = SeedBytes
    /\ (Did("assemble") /\ ~Did("patch")) => SubSeq(image, 13, 16) = SeedBytes
    /\ (Opened("out") \/ fs # fsStart) => Did("patch")
    /\ Did("write") => OutFile = image

\* What C8 says of each step: the checksum is computed over the seed-bearing
\* image; the patch comes after assembly and changes bytes [12:16] only; once
\* patched, the image of a run does not change again.
C8_Step ==
    /\ (pc = "checksum" /\ pc' # pc) => SubSeq(image, 13, 16) = SeedBytes
    /\ (~Did("patch") /\ Did("patch")') =>
          /\ Did("assemble")
          /\ Len(image') = Len(image)
          /\ \A i \in 1..Len(image) : i \notin 13..16 => image'[i] = image[i]
          /\ code' = code
    /\ (Did("patch") /\ run' = run) => image' = image

\* C8: in every successful run the steps occur in the fixed order read,
\* header (with the seed 0x5F0A6C39 in bytes [12:16]), assemble, checksum
\* (over the seed-bearing image), patch, write, print, exit 0; the checksum
\* field is written exactly once, after assembly, and that write changes
\* bytes [12:16] only; the output file never receives an image that has not
\* been patched.
C8_StepOrder == [](C8_State) /\ [][C8_Step]_vars

C8_Witness ==
    /\ Succeeded
    /\ steps = FixedOrder
    /\ SubSeq(OutFile, 13, 16) # SeedBytes

\* C9: every file handle opened is closed before make_boot0 is left, on the
\* failed paths too; at most one handle is open at a time, the input handle
\* being closed before the output handle is opened; none is open when the
\* process ends.
C9_HandlesClosed ==
    /\ Cardinality(open) <= 1
    /\ pc = "exit" => open = {}
    /\ "in" \in open => pc \in {"read", "close_in"}
    /\ "out" \in open => pc \in {"write", "close_out"}
    /\ Opened("out") => "in" \notin open
    /\ \A h \in open : Opened(h)

C9_Witness ==
    /\ failure = "write"
    /\ Failed
    /\ handles = <<"in", "out">>
    /\ open = {}

\* C10: whenever the run ends in failure after the output file was opened
\* for writing, the file at the output path is not a structurally complete
\* image; and a summary is printed only for a file this run wrote.
C10_NoCompleteFileOnFailure ==
    /\ (Failed /\ Opened("out")) => ~Complete(OutFile)
    /\ Printed("created") => Did("write") /\ OutFile = image

====
